---- MODULE Spec2Model ----
(***************************************************************************)
(* A model of opensearch_filtering/opensearch/filters.py: the filter       *)
(* primitives (CharFilter, NumericFilter, DateFilter, BooleanFilter), the  *)
(* filter registry (FilterSet.get_filters), the filter-sets (FilterSet,    *)
(* DocumentFilterSet, BookDocumentFilterSet) and the query they build.     *)
(*                                                                         *)
(* Python values are records [t, n, s]: t is the type tag, n the number    *)
(* (prices in cents, booleans 0/1), s the string.  A query (the Search     *)
(* object of the search client) is a record of the clauses added so far,   *)
(* the sort keys and the slice; Search.query() returns a copy with one     *)
(* more clause, AND-ed to the others.                                      *)
(***************************************************************************)
EXTENDS Integers, Sequences, FiniteSets, TLC

VARIABLES
    pc,        \* "init": nothing done; "ready": a filter-set is constructed;
               \* "failed": its constructor raised; "prim": a primitive was applied
    cls,       \* the class of the filter-set instance
    arg,       \* the data argument the caller passed to the constructor
    data,      \* self.data
    filters,   \* self.filters, the registry, in declaration order
    err,       \* the exception raised, "" when none
    results,   \* the calls of search()/filter() so far: [op, base, out]
    applied,   \* the primitive applications: [f, value, before, after]
    klass,     \* the class objects: for each class its __dict__, shared by all
               \* its instances
    inst       \* two instances of BookDocumentFilterSet whose steps interleave

vars == <<pc, cls, arg, data, filters, err, results, applied, klass, inst>>

----------------------------------------------------------------------------
(* Bounds *)

\* The largest number of keys of the criteria data.
MaxDataKeys == 3

\* The largest number of search()/filter() calls on one instance.
MaxCalls == 2

\* The largest number of keys of the data of an interleaved instance.
MaxSharedKeys == 2

\* The largest number of search() calls of an interleaved instance.
MaxSearches == 1

----------------------------------------------------------------------------
(* Python values *)

None == [t |-> "none", n |-> 0, s |-> ""]
Str(x) == [t |-> "str", n |-> 0, s |-> x]
Num(x) == [t |-> "num", n |-> x, s |-> ""]
Bool(b) == [t |-> "bool", n |-> IF b THEN 1 ELSE 0, s |-> ""]

\* Python's truth value of v: None, "", 0 and False are falsy.
Truthy(v) ==
    CASE v.t = "none" -> FALSE
      [] v.t = "str"  -> v.s # ""
      [] v.t = "num"  -> v.n # 0
      [] v.t = "bool" -> v.n = 1

\* v is None
IsNone(v) == v.t = "none"

----------------------------------------------------------------------------
(* The query accumulator *)

\* BookDocument.search(): a fresh query on the index, no clause, sort or slice.
Document_search(index) ==
    [index |-> index, clauses |-> <<>>, sort |-> <<>>, window |-> <<>>]

\* search.query(kind, **{field: value}), or {field: {bound: value}} for a range
Query(search, kind, field, bound, value) ==
    [search EXCEPT !.clauses =
        Append(@, [kind |-> kind, field |-> field, bound |-> bound, value |-> value])]

----------------------------------------------------------------------------
(* Filter primitives *)

CharFilter(field_name, lookup_expr) ==
    [kind |-> "CharFilter", field_name |-> field_name, lookup_expr |-> lookup_expr]
NumericFilter(field_name, lookup_expr) ==
    [kind |-> "NumericFilter", field_name |-> field_name, lookup_expr |-> lookup_expr]
DateFilter(field_name, lookup_expr) ==
    [kind |-> "DateFilter", field_name |-> field_name, lookup_expr |-> lookup_expr]
\* BooleanFilter has no lookup_expr attribute; the field is kept empty.
BooleanFilter(field_name) ==
    [kind |-> "BooleanFilter", field_name |-> field_name, lookup_expr |-> ""]

\* format(value), as an f-string does it: a string as it is, a number (held
\* in hundredths) in its shortest decimal form, 29.99 or 35.0
Format(v) ==
    CASE v.t = "str"  -> v.s
      [] v.t = "bool" -> IF v.n = 1 THEN "True" ELSE "False"
      [] v.t = "none" -> "None"
      [] v.t = "num"  ->
            ToString(v.n \div 100) \o "." \o
                (IF v.n % 10 = 0 THEN ToString((v.n % 100) \div 10)
                 ELSE IF v.n % 100 < 10 THEN "0" \o ToString(v.n % 100)
                 ELSE ToString(v.n % 100))

\* The wildcard lookup passing the value as it is
Wildcard_unwrapped(v) == v

\* f"*{value}*"
Wildcard(v) == Str("*" \o Format(v) \o "*")

CharFilter_filter(self, search, value) ==
    IF ~Truthy(value) THEN search
    ELSE IF self.lookup_expr = "match"
        THEN Query(search, "match", self.field_name, "", value)
    ELSE IF self.lookup_expr = "term"
        THEN Query(search, "term", self.field_name, "", value)
    ELSE IF self.lookup_expr = "wildcard"
        THEN Query(search, "wildcard", self.field_name, "", Wildcard(value))
    ELSE Query(search, self.lookup_expr, self.field_name, "", value)

NumericFilter_filter(self, search, value) ==
    IF IsNone(value) THEN search
    ELSE IF self.lookup_expr = "term"
        THEN Query(search, "term", self.field_name, "", value)
    ELSE IF self.lookup_expr \in {"gt", "gte", "lt", "lte"}
        THEN Query(search, "range", self.field_name, self.lookup_expr, value)
    ELSE Query(search, self.lookup_expr, self.field_name, "", value)

DateFilter_filter(self, search, value) ==
    IF ~Truthy(value) THEN search
    ELSE IF self.lookup_expr = "term"
        THEN Query(search, "term", self.field_name, "", value)
    ELSE IF self.lookup_expr \in {"gt", "gte", "lt", "lte"}
        THEN Query(search, "range", self.field_name, self.lookup_expr, value)
    ELSE Query(search, self.lookup_expr, self.field_name, "", value)

BooleanFilter_filter(self, search, value) ==
    IF IsNone(value) THEN search
    ELSE Query(search, "term", self.field_name, "", value)

\* filter_obj.filter(search, value): the method of the object's class
BaseFilter_filter(self, search, value) ==
    CASE self.kind = "CharFilter"    -> CharFilter_filter(self, search, value)
      [] self.kind = "NumericFilter" -> NumericFilter_filter(self, search, value)
      [] self.kind = "DateFilter"    -> DateFilter_filter(self, search, value)
      [] self.kind = "BooleanFilter" -> BooleanFilter_filter(self, search, value)

\* isinstance(obj, BaseFilter)
IsBaseFilter(obj) ==
    obj.kind \in {"CharFilter", "NumericFilter", "DateFilter", "BooleanFilter"}

----------------------------------------------------------------------------
(* The filter-set classes *)

\* An attribute of a class body that is no filter (a docstring, a method, ...).
Other == [kind |-> "other", field_name |-> "", lookup_expr |-> ""]

Attr(name, obj) == [name |-> name, obj |-> obj]

Classes == {"FilterSet", "DocumentFilterSet", "BookDocumentFilterSet"}

\* The classes whose __init__ is DocumentFilterSet.__init__
DocumentClasses == {"DocumentFilterSet", "BookDocumentFilterSet"}

\* cls.__dict__.items(): the attributes of the class's own body, in the order
\* of their declaration
ClassDict(c) ==
    CASE c = "FilterSet" ->
            << Attr("__doc__", Other), Attr("__init__", Other),
               Attr("get_filters", Other), Attr("filter", Other) >>
      [] c = "DocumentFilterSet" ->
            << Attr("__doc__", Other), Attr("document", Other),
               Attr("__init__", Other), Attr("search", Other) >>
      [] c = "BookDocumentFilterSet" ->
            << Attr("__doc__", Other), Attr("BookDocument", Other),
               Attr("document", Other),
               Attr("title", CharFilter("title", "match")),
               Attr("author", CharFilter("author", "match")),
               Attr("publication_date", DateFilter("publication_date", "term")),
               Attr("price", NumericFilter("price", "term")),
               Attr("price_min", NumericFilter("price", "gte")),
               Attr("price_max", NumericFilter("price", "lte")),
               Attr("filter", Other) >>

\* self.document: "" stands for None, otherwise the name of the index of the
\* document class.
NoDocument == ""
Document(c) == IF c = "BookDocumentFilterSet" THEN "books" ELSE NoDocument

\* get_filters without the isinstance test: every attribute of the class
get_filters_all_attrs(c) == klass[c]

\* FilterSet.get_filters
get_filters(c) == SelectSeq(klass[c], LAMBDA a : IsBaseFilter(a.obj))

\* The names of a registry, in order
Names(fs) == [i \in 1..Len(fs) |-> fs[i].name]

RECURSIVE FilterSet_filter(_, _, _)
\* FilterSet.filter, as a fold over self.filters.items()
FilterSet_filter(fs, d, search) ==
    IF fs = <<>> THEN search
    ELSE LET name == Head(fs).name
             filter_obj == Head(fs).obj
         IN  FilterSet_filter(Tail(fs), d,
                IF name \in DOMAIN d
                THEN BaseFilter_filter(filter_obj, search, d[name])
                ELSE search)

\* BookDocumentFilterSet.filter without its precedence rule: the loop of the
\* base class.
BookDocumentFilterSet_filter_no_skip(fs, d, search) == FilterSet_filter(fs, d, search)

RECURSIVE UnknownKeyClauses(_, _, _)
\* One term clause for every key of d that names no filter of fs
UnknownKeyClauses(fs, d, search) ==
    LET unknown == DOMAIN d \ {fs[i].name : i \in 1..Len(fs)}
    IN  IF unknown = {} THEN search
        ELSE LET k == CHOOSE x \in unknown : TRUE
             IN  UnknownKeyClauses(fs, [x \in DOMAIN d \ {k} |-> d[x]],
                                   Query(search, "term", k, "", d[k]))

\* BookDocumentFilterSet.filter looping over the data as well as the registry:
\* the precedence rule is kept, and a key that names no filter becomes a clause.
BookDocumentFilterSet_filter_data_keys(fs, d, search) ==
    LET eff == IF "price" \in DOMAIN d
               THEN [x \in DOMAIN d \ {"price_min", "price_max"} |-> d[x]]
               ELSE d
    IN  UnknownKeyClauses(fs, eff, FilterSet_filter(fs, eff, search))

\* One iteration of the loop of BookDocumentFilterSet.filter
BookDocumentFilterSet_filter_body(name, filter_obj, d, search) ==
    IF name \in {"price_min", "price_max"} /\ "price" \in DOMAIN d
    THEN search
    ELSE IF name \in DOMAIN d
    THEN BaseFilter_filter(filter_obj, search, d[name])
    ELSE search

RECURSIVE BookDocumentFilterSet_filter(_, _, _)
\* BookDocumentFilterSet.filter
BookDocumentFilterSet_filter(fs, d, search) ==
    IF fs = <<>> THEN search
    ELSE BookDocumentFilterSet_filter(Tail(fs), d,
            BookDocumentFilterSet_filter_body(Head(fs).name, Head(fs).obj, d, search))

\* self.filter(search): the method of the instance's class
Filter(c, fs, d, search) ==
    IF c = "BookDocumentFilterSet"
    THEN BookDocumentFilterSet_filter(fs, d, search)
    ELSE FilterSet_filter(fs, d, search)

\* filter() consuming the data it reads: data.pop(name) for self.data[name]
data_after_filter_pop(fs, d) ==
    [k \in DOMAIN d \ {fs[i].name : i \in 1..Len(fs)} |-> d[k]]

\* filter() implementing the precedence rule by deleting price_min and
\* price_max from the data when price is a key
data_after_filter_del_range(fs, d) ==
    IF "price" \in DOMAIN d
    THEN [k \in DOMAIN d \ {"price_min", "price_max"} |-> d[k]]
    ELSE d

\* self.data after a call of filter(): the loop only reads it
data_after_filter(fs, d) == d

\* DocumentFilterSet.__init__ without its check of self.document
DocumentFilterSet_init_no_check(c) == ""

\* The check of DocumentFilterSet.__init__: the exception it raises, "" if none
DocumentFilterSet_init_error(c) ==
    IF Document(c) = NoDocument THEN "ValueError" ELSE ""

----------------------------------------------------------------------------
(* The inputs *)

\* The keys of the criteria data: the six declared filters, the names that are
\* no declared filter, and sort, page and page_size.
Keys ==
    {"title", "author", "publication_date", "price", "price_min", "price_max",
     "price_exact", "price_min_value", "price_max_value",
     "sort", "page", "page_size"}

\* The values a key takes.
KeyValues(k) ==
    CASE k = "title"            -> {Str(""), Str("Python")}
      [] k = "author"           -> {Str("Jane")}
      [] k = "publication_date" -> {None, Str("2023-02-01")}
      [] k = "price"            -> {None, Str(""), Num(0), Num(2999)}
      [] k = "price_min"        -> {None, Num(3500)}
      [] k = "price_max"        -> {None, Num(4500)}
      [] k = "price_exact"      -> {Num(2999)}
      [] k = "price_min_value"  -> {Num(3500)}
      [] k = "price_max_value"  -> {Num(4500)}
      [] k = "sort"             -> {Str("title_keyword"), Str("-publication_date"),
                                    Str("bogus")}
      [] k = "page"             -> {Num(0), Num(2), Str("abc")}
      [] k = "page_size"        -> {Num(0), Num(2), Num(101)}

EmptyDict == [k \in {} |-> None]

RECURSIVE DictsOver(_)
\* The dicts whose keys are S
DictsOver(S) ==
    IF S = {} THEN {EmptyDict}
    ELSE LET k == CHOOSE x \in S : TRUE
         IN  { [x \in S |-> IF x = k THEN v ELSE d[x]] :
                    d \in DictsOver(S \ {k}), v \in KeyValues(k) }

Dicts ==
    UNION { DictsOver(S) : S \in {T \in SUBSET Keys : Cardinality(T) <= MaxDataKeys} }

\* The data argument of a constructor: None, or a dict
DataArgs ==
    {[none |-> TRUE, map |-> EmptyDict]} \cup {[none |-> FALSE, map |-> d] : d \in Dicts}

\* The queries filter() is called on: a fresh one, and one that holds a clause.
BaseQueries ==
    { Document_search("books"),
      Query(Document_search("books"), "match", "pages.text", "", Str("text")) }

Lookups == {"match", "term", "wildcard", "gt", "gte", "lt", "lte", "prefix"}

\* The primitives applied on their own: every kind with every lookup
Primitives ==
    {CharFilter("title", l) : l \in Lookups}
        \cup {NumericFilter("price", l) : l \in Lookups}
        \cup {DateFilter("publication_date", l) : l \in Lookups}
        \cup {BooleanFilter("in_stock")}

PrimValues ==
    {None, Str(""), Str("Python"), Num(0), Num(2999), Bool(FALSE), Bool(TRUE)}

\* The two interleaved instances
Instances == {"a", "b"}

\* An instance before its constructor has run: its position, self.data, the
\* names of self.filters, the loop index and the query of a running filter(),
\* and the queries its search() calls returned
NewInstance ==
    [pc |-> "init", data |-> EmptyDict, names |-> <<>>, pos |-> 0,
     acc |-> Document_search("books"), out |-> <<>>]

----------------------------------------------------------------------------
(* The state machine *)

Init ==
    /\ pc = "init"
    /\ cls = ""
    /\ arg = [none |-> TRUE, map |-> EmptyDict]
    /\ data = EmptyDict
    /\ filters = <<>>
    /\ err = ""
    /\ results = <<>>
    /\ applied = <<>>
    /\ klass = [c \in Classes |-> ClassDict(c)]
    /\ inst = [i \in Instances |-> NewInstance]

\* c(data=a): FilterSet.__init__, then for a document filter-set the check of
\* DocumentFilterSet.__init__
Construct(c, a) ==
    /\ pc = "init"
    /\ cls' = c
    /\ arg' = a
    /\ data' = IF a.none \/ DOMAIN a.map = {} THEN EmptyDict ELSE a.map
    /\ filters' = get_filters(c)
    /\ err' = IF c \in DocumentClasses THEN DocumentFilterSet_init_error(c) ELSE ""
    /\ pc' = IF err' = "" THEN "ready" ELSE "failed"
    /\ UNCHANGED <<results, applied, klass, inst>>

\* The query DocumentFilterSet.search returns
DocumentFilterSet_search(c, fs, d) == Filter(c, fs, d, Document_search(Document(c)))

\* self.search() on a constructed document filter-set
Search ==
    /\ pc = "ready"
    /\ cls \in DocumentClasses
    /\ Len(results) < MaxCalls
    /\ IF Document(cls) = NoDocument
       THEN /\ err' = "AttributeError"
            /\ pc' = "failed"
            /\ UNCHANGED results
       ELSE /\ results' = Append(results,
                [op |-> "search", base |-> Document_search(Document(cls)),
                 out |-> DocumentFilterSet_search(cls, filters, data)])
            /\ UNCHANGED <<pc, err>>
    /\ data' = IF Document(cls) = NoDocument THEN data
               ELSE data_after_filter(filters, data)
    /\ UNCHANGED <<cls, arg, filters, applied, klass, inst>>

\* self.filter(search) on a constructed filter-set
FilterCall(search) ==
    /\ pc = "ready"
    /\ Len(results) < MaxCalls
    /\ results' = Append(results,
            [op |-> "filter", base |-> search, out |-> Filter(cls, filters, data, search)])
    /\ data' = data_after_filter(filters, data)
    /\ UNCHANGED <<pc, cls, arg, filters, err, applied, klass, inst>>

\* f.filter(search, value) on a primitive of its own
ApplyPrimitive(f, search, value) ==
    /\ pc = "init"
    /\ pc' = "prim"
    /\ applied' = Append(applied,
            [f |-> f, value |-> value, before |-> search,
             after |-> BaseFilter_filter(f, search, value)])
    /\ UNCHANGED <<cls, arg, data, filters, err, results, klass, inst>>

\* FilterSet.filter(self, search): the method of the base class, called on an
\* instance of a class that overrides it
BaseFilterCall(search) ==
    /\ pc = "ready"
    /\ cls = "BookDocumentFilterSet"
    /\ Len(results) < MaxCalls
    /\ results' = Append(results,
            [op |-> "base", base |-> search, out |-> FilterSet_filter(filters, data, search)])
    /\ data' = data_after_filter(filters, data)
    /\ UNCHANGED <<pc, cls, arg, filters, err, applied, klass, inst>>

\* A caller calls the base class's filter() on the query that holds a clause.
BaseFilterAny ==
    /\ pc = "ready"
    /\ \E b \in BaseQueries : Len(b.clauses) = 1 /\ BaseFilterCall(b)

----------------------------------------------------------------------------
(* Two instances of BookDocumentFilterSet, each loop iteration a step *)

SharedKeys == {"title", "price", "price_min"}

\* The data of the interleaved instances: None, numbers and non-empty text
SharedDicts ==
    { d \in UNION { DictsOver(S) :
                S \in {T \in SUBSET SharedKeys : Cardinality(T) <= MaxSharedKeys} } :
        \A k \in DOMAIN d : d[k] # Str("") }

\* self.data kept on the class instead of the instance: every instance reads
\* the data instance "b" was constructed with
self_data_on_class(i) ==
    IF inst["b"].pc # "init" THEN inst["b"].data ELSE inst[i].data

\* self.data: an attribute of the instance
self_data(i) == inst[i].data

\* The object the class attribute name refers to: the primitives are class
\* attributes, shared by the instances
ClassAttr(c, name) ==
    LET j == CHOOSE j \in 1..Len(klass[c]) : klass[c][j].name = name
    IN  klass[c][j].obj

\* BookDocumentFilterSet(data=d) for instance i
ConstructShared(i, d) ==
    /\ inst[i].pc = "init"
    /\ inst' = [inst EXCEPT ![i] =
                  [@ EXCEPT !.pc = "ready",
                            !.data = IF DOMAIN d = {} THEN EmptyDict ELSE d,
                            !.names = Names(get_filters("BookDocumentFilterSet"))]]
    /\ UNCHANGED <<pc, cls, arg, data, filters, err, results, applied, klass>>

\* Instance i enters search(): the base query, then the loop of filter()
BeginSearch(i) ==
    /\ inst[i].pc = "ready"
    /\ Len(inst[i].out) < MaxSearches
    /\ inst' = [inst EXCEPT ![i] =
                  [@ EXCEPT !.pc = "loop", !.pos = 1,
                            !.acc = Document_search(Document("BookDocumentFilterSet"))]]
    /\ UNCHANGED <<pc, cls, arg, data, filters, err, results, applied, klass>>

\* One iteration of the loop of filter() of instance i
LoopStep(i) ==
    /\ inst[i].pc = "loop"
    /\ inst[i].pos <= Len(inst[i].names)
    /\ LET name == inst[i].names[inst[i].pos]
           filter_obj == ClassAttr("BookDocumentFilterSet", name)
       IN  inst' = [inst EXCEPT ![i] =
                      [@ EXCEPT !.pos = @ + 1,
                                !.acc = BookDocumentFilterSet_filter_body(
                                            name, filter_obj, self_data(i), @)]]
    /\ UNCHANGED <<pc, cls, arg, data, filters, err, results, applied, klass>>

\* The loop of instance i is over: search() returns the query
ReturnSearch(i) ==
    /\ inst[i].pc = "loop"
    /\ inst[i].pos > Len(inst[i].names)
    /\ inst' = [inst EXCEPT ![i] =
                  [@ EXCEPT !.pc = "ready", !.out = Append(@, inst[i].acc)]]
    /\ UNCHANGED <<pc, cls, arg, data, filters, err, results, applied, klass>>

ConstructSharedAny == \E i \in Instances : \E d \in SharedDicts : ConstructShared(i, d)
BeginSearchAny == \E i \in Instances : BeginSearch(i)
LoopStepAny == \E i \in Instances : LoopStep(i)
ReturnSearchAny == \E i \in Instances : ReturnSearch(i)

NextShared == ConstructSharedAny \/ BeginSearchAny \/ LoopStepAny \/ ReturnSearchAny

\* The two instances, their steps interleaved in any order
SpecShared == Init /\ [][NextShared]_vars

----------------------------------------------------------------------------
(* One instance *)

\* A caller constructs a filter-set of some class with some data.
ConstructAny ==
    /\ pc = "init"
    /\ \E c \in Classes, a \in DataArgs : Construct(c, a)

\* A caller calls filter() on some query.
FilterAny ==
    /\ pc = "ready"
    /\ \E b \in BaseQueries : FilterCall(b)

\* A caller applies some primitive to some query and value.
ApplyAny ==
    /\ pc = "init"
    /\ \E f \in Primitives, b \in BaseQueries, v \in PrimValues : ApplyPrimitive(f, b, v)

Next == ConstructAny \/ Search \/ FilterAny \/ BaseFilterAny \/ ApplyAny

Spec == Init /\ [][Next]_vars

----------------------------------------------------------------------------
(* Properties *)

\* A value that is neither None nor the empty string
NonEmpty(v) == ~IsNone(v) /\ ~(v.t = "str" /\ v.s = "")

\* The clauses a call added to the query it was given
Added(r) == SubSeq(r.out.clauses, Len(r.base.clauses) + 1, Len(r.out.clauses))

OnPrice(cs) == SelectSeq(cs, LAMBDA c : c.field = "price")

Clause(kind, field, bound, value) ==
    [kind |-> kind, field |-> field, bound |-> bound, value |-> value]

InSeq(x, sq) == \E i \in 1..Len(sq) : sq[i] = x

Calls == {results[i] : i \in 1..Len(results)}

Searches == {r \in Calls : r.op = "search"}

\* The calls of the instance's own filter() and search()
OwnCalls == {r \in Calls : r.op \in {"search", "filter"}}

Has(k) == k \in DOMAIN data

\* C1: when the data of a BookDocumentFilterSet hold a non-empty price together
\* with price_min and/or price_max, the only clause filter()/search() adds on
\* the price field is the term clause of the exact filter: no range clause.
C1_ExactSuppressesRange ==
    \A r \in OwnCalls :
        ( /\ cls = "BookDocumentFilterSet"
          /\ Has("price") /\ NonEmpty(data["price"])
          /\ (Has("price_min") \/ Has("price_max")) )
        => /\ OnPrice(Added(r)) = << Clause("term", "price", "", data["price"]) >>
           /\ SubSeq(r.out.clauses, 1, Len(r.base.clauses)) = r.base.clauses

C1_Witness ==
    \E r \in Searches :
        /\ cls = "BookDocumentFilterSet"
        /\ Has("price") /\ data["price"] = Num(2999)
        /\ Has("price_min") /\ data["price_min"] = Num(3500)
        /\ Has("price_max") /\ data["price_max"] = Num(4500)

\* C2: when price is absent, None or empty and price_min / price_max hold a
\* non-empty value, the query holds the gte / lte range clause on price.
C2_RangeAppliesWithoutExact ==
    \A r \in OwnCalls :
        ( /\ cls = "BookDocumentFilterSet"
          /\ (~Has("price") \/ ~NonEmpty(data["price"])) )
        => /\ (Has("price_min") /\ NonEmpty(data["price_min"]))
                => InSeq(Clause("range", "price", "gte", data["price_min"]), Added(r))
           /\ (Has("price_max") /\ NonEmpty(data["price_max"]))
                => InSeq(Clause("range", "price", "lte", data["price_max"]), Added(r))

\* C3: a primitive of any kind and lookup applied to None or to an empty value
\* returns the query it was given.
C3_EmptyValueIsNoOp ==
    \A i \in 1..Len(applied) :
        ~NonEmpty(applied[i].value) => applied[i].after = applied[i].before

Without(d, k) == [x \in DOMAIN d \ {k} |-> d[x]]

Reserved == {"sort", "page", "page_size"}

UnknownKeys == DOMAIN data \ ({filters[i].name : i \in 1..Len(filters)} \cup Reserved)

\* C4: a key of the data that names no declared filter and is not reserved
\* raises nothing, at construction or in filter()/search(), and the query is the
\* one built from the data without that key.
C4_UnknownKeyIgnored ==
    (pc \in {"ready", "failed"} /\ cls # "DocumentFilterSet")
    => /\ pc = "ready" /\ err = ""
       /\ \A r \in Calls : \A k \in UnknownKeys :
             r.out = IF r.op = "base"
                     THEN FilterSet_filter(filters, Without(data, k), r.base)
                     ELSE Filter(cls, filters, Without(data, k), r.base)

C4_Witness ==
    \E r \in Searches :
        /\ cls = "BookDocumentFilterSet"
        /\ Has("price_exact") /\ Has("title") /\ data["title"] = Str("Python")

\* C5 as stated: constructing a document filter-set that has no document fails
\* with a ConfigurationError.
C5_ConfigurationError ==
    (pc \in {"ready", "failed"} /\ cls \in DocumentClasses /\ Document(cls) = NoDocument)
    => pc = "failed" /\ err = "ConfigurationError"

\* C5, amended: constructing a document filter-set that has no document fails
\* with a ValueError, at construction and for every data, so that search() is
\* never reached; a filter-set that has a document constructs without error.
C5_ValueErrorAtConstruction ==
    (pc \in {"ready", "failed"} /\ cls \in DocumentClasses)
    => IF Document(cls) = NoDocument
       THEN pc = "failed" /\ err = "ValueError" /\ results = <<>>
       ELSE pc = "ready" /\ err = ""

C5_Witness ==
    /\ cls = "DocumentFilterSet" /\ pc = "failed" /\ err = "ValueError"
    /\ ~arg.none /\ DOMAIN arg.map # {}

\* The pagination defaults and rules of the document filter-set
DEFAULT_PAGE_SIZE == 10
MAX_PAGE_SIZE == 100

IsNumber(d, k) == k \in DOMAIN d /\ d[k].t = "num"

EffectivePage(d) ==
    IF IsNumber(d, "page") /\ d["page"].n >= 1 THEN d["page"].n ELSE 1

EffectivePageSize(d) ==
    IF ~IsNumber(d, "page_size") \/ d["page_size"].n < 1 THEN DEFAULT_PAGE_SIZE
    ELSE IF d["page_size"].n > MAX_PAGE_SIZE THEN MAX_PAGE_SIZE
    ELSE d["page_size"].n

\* C6: the query search() returns is sliced by the normalised parameters: its
\* window has the effective page size (DEFAULT_PAGE_SIZE for an absent or
\* non-positive page_size, at most MAX_PAGE_SIZE) and starts at the effective
\* page (1 for an absent, non-numeric or non-positive page).
C6_PaginationNormalised ==
    \A r \in Searches :
        /\ Len(r.out.window) = 2
        /\ r.out.window[2] - r.out.window[1] = EffectivePageSize(data)
        /\ r.out.window[1] = (EffectivePage(data) - 1) * EffectivePageSize(data)

\* C7: for a page n >= 1 and a page size s within the limits, the query
\* search() returns is sliced to [(n-1)*s, n*s), so that the window of page
\* n+1 starts where that of page n ends.
C7_PageWindow ==
    \A r \in Searches :
        ( /\ IsNumber(data, "page") /\ data["page"].n >= 1
          /\ IsNumber(data, "page_size")
          /\ data["page_size"].n \in 1..MAX_PAGE_SIZE )
        => LET n == data["page"].n
               sz == data["page_size"].n
           IN  r.out.window = << (n - 1) * sz, n * sz >>

\* The sort keys the tests use: the key, and whether it is descending
AllowedSort ==
    { [key |-> Str("title_keyword"), desc |-> FALSE],
      [key |-> Str("-title_keyword"), desc |-> TRUE],
      [key |-> Str("price"), desc |-> FALSE],
      [key |-> Str("-publication_date"), desc |-> TRUE] }

\* C8: with an allowed sort key search() applies exactly one sort, descending
\* exactly for a key with the leading '-'; with no sort key, or an unrecognised
\* one, it applies none.
C8_SortApplied ==
    \A r \in Searches :
        IF Has("sort") /\ \E a \in AllowedSort : a.key = data["sort"]
        THEN /\ Len(r.out.sort) = 1
             /\ \E a \in AllowedSort :
                    a.key = data["sort"] /\ r.out.sort[1].desc = a.desc
        ELSE r.out.sort = <<>>

\* C9: every query search() returns carries a slice, applied last; with no page
\* parameters it is the default window [0, DEFAULT_PAGE_SIZE).
C9_SliceAlwaysApplied ==
    \A r \in Searches :
        /\ Len(r.out.window) = 2
        /\ (~Has("page") /\ ~Has("page_size"))
              => r.out.window = << 0, DEFAULT_PAGE_SIZE >>

\* C10: with price_exact in the data, the query search() returns holds an
\* exact-equality (term) clause on the price field with that value.
C10_PriceExactClause ==
    \A r \in Searches :
        (cls = "BookDocumentFilterSet" /\ Has("price_exact"))
        => InSeq(Clause("term", "price", "", data["price_exact"]), r.out.clauses)

\* The range clauses among cs that are on the price field
PriceRanges(cs) == SelectSeq(cs, LAMBDA c : c.kind = "range" /\ c.field = "price")

\* The bounds the range clauses cs carry
Bounds(cs) == { <<cs[i].bound, cs[i].value>> : i \in 1..Len(cs) }

\* The bounds a two-sided range criterion asks for: gte for a present min, lte
\* for a present max
WantedBounds(kmin, kmax) ==
    { <<"gte", data[k]>> : k \in {kmin} \cap DOMAIN data }
        \cup { <<"lte", data[k]>> : k \in {kmax} \cap DOMAIN data }

\* C11: a two-sided range criterion on price (price_min_value, price_max_value)
\* builds a single range clause on price that carries gte for a present min and
\* lte for a present max, and no clause when both are absent.
C11_TwoSidedRange ==
    \A r \in Searches :
        (cls = "BookDocumentFilterSet" /\ ~Has("price") /\ ~Has("price_min")
            /\ ~Has("price_max"))
        => LET want == WantedBounds("price_min_value", "price_max_value")
               got == PriceRanges(r.out.clauses)
           IN  /\ Bounds(got) = want
               /\ Len(got) = IF want = {} THEN 0 ELSE 1

\* C12: calls of search(), and of filter() on the same query, on one instance
\* return the same query each time: an earlier call changes no later one.
C12_SearchIdempotent ==
    \A i, j \in 1..Len(results) :
        (results[i].op = results[j].op /\ results[i].base = results[j].base)
        => results[i].out = results[j].out

C12_Witness ==
    /\ Len(results) = 2
    /\ results[1].op = "search" /\ results[2].op = "search"
    /\ Len(results[2].out.clauses) = 2
    /\ Has("price") /\ Has("price_min")

\* C16: after construction and after any calls of filter() and search(), the
\* data of the instance have the keys and values the caller supplied.
C16_DataNeverMutated ==
    pc \in {"ready", "failed"}
    => data = IF arg.none THEN EmptyDict ELSE arg.map

C16_Witness ==
    /\ Len(results) = 2
    /\ results[1].op = "search" /\ results[2].op = "filter"
    /\ Has("price") /\ NonEmpty(data["price"]) /\ Has("price_min") /\ Has("price_max")
    /\ ~arg.none /\ data = arg.map

Applications == {applied[i] : i \in 1..Len(applied)}

\* C13: the text primitive applied to a non-empty value v adds exactly one
\* clause on field_name: the clause kind is the lookup name (match, term,
\* wildcard, or any other name verbatim) and its value is v, wrapped as *v* for
\* the wildcard lookup.
C13_TextLookups ==
    \A a \in Applications :
        (a.f.kind = "CharFilter" /\ Truthy(a.value))
        => /\ Len(a.after.clauses) = Len(a.before.clauses) + 1
           /\ SubSeq(a.after.clauses, 1, Len(a.before.clauses)) = a.before.clauses
           /\ [a.after EXCEPT !.clauses = a.before.clauses] = a.before
           /\ LET c == a.after.clauses[Len(a.after.clauses)]
              IN  /\ c.kind = a.f.lookup_expr
                  /\ c.field = a.f.field_name
                  /\ c.bound = ""
                  /\ a.f.lookup_expr # "wildcard" => c.value = a.value
                  /\ (a.f.lookup_expr = "wildcard" /\ a.value.t = "str")
                        => c.value = Str("*" \o a.value.s \o "*")
                  /\ (a.f.lookup_expr = "wildcard" /\ a.value = Num(2999))
                        => c.value = Str("*29.99*")

C13_Witness ==
    \E a \in Applications :
        /\ a.f = CharFilter("title", "wildcard")
        /\ a.value = Str("Python")
        /\ Len(a.before.clauses) = 1
        /\ a.after.clauses[2].value = Str("*Python*")

\* The clause a numeric or date lookup adds: term for term, a range clause with
\* the lookup name as its bound for gt, gte, lt and lte
ComparisonClause(f, v) ==
    IF f.lookup_expr = "term" THEN Clause("term", f.field_name, "", v)
    ELSE Clause("range", f.field_name, f.lookup_expr, v)

\* C14: the numeric and the date primitive add the same clause for the same
\* field, lookup and value: for a non-empty value, a term clause with lookup
\* term and a range clause with that bound with lookup gt, gte, lt or lte.
C14_NumericDateIdentical ==
    \A a \in Applications :
        (a.f.kind \in {"NumericFilter", "DateFilter"}
            /\ a.f.lookup_expr \in {"term", "gt", "gte", "lt", "lte"})
        => /\ NonEmpty(a.value)
                => a.after = [a.before EXCEPT
                                !.clauses = Append(@, ComparisonClause(a.f, a.value))]
           /\ NumericFilter_filter(a.f, a.before, a.value)
                = DateFilter_filter(a.f, a.before, a.value)

\* The registry entries whose name is a key of the data with a non-empty value
Applicable(fs, d) ==
    SelectSeq(fs, LAMBDA e : e.name \in DOMAIN d /\ NonEmpty(d[e.name]))

\* C15: the base class's filter() adds exactly one clause for each declared
\* filter whose name is a key of the data with a non-empty value, in
\* declaration order, and nothing else; with no such key it returns the query
\* it was given.
C15_BaseFilterFold ==
    \A r \in Calls :
        r.op = "base"
        => LET want == Applicable(filters, data)
               got == Added(r)
           IN  /\ SubSeq(r.out.clauses, 1, Len(r.base.clauses)) = r.base.clauses
               /\ Len(got) = Len(want)
               /\ \A i \in 1..Len(want) :
                     /\ got[i].field = want[i].obj.field_name
                     /\ got[i].value = data[want[i].name]
               /\ want = <<>> => r.out = r.base

\* The registry of BookDocumentFilterSet, as its class body declares it
BookRegistry ==
    << Attr("title", CharFilter("title", "match")),
       Attr("author", CharFilter("author", "match")),
       Attr("publication_date", DateFilter("publication_date", "term")),
       Attr("price", NumericFilter("price", "term")),
       Attr("price_min", NumericFilter("price", "gte")),
       Attr("price_max", NumericFilter("price", "lte")) >>

\* C17: the registry of an instance is the one get_filters() computes for its
\* class, at construction and at any later time; for BookDocumentFilterSet it
\* holds title, author, publication_date, price, price_min and price_max in
\* this order with their primitives, and no attribute that is no primitive
\* (the classes with no declared primitive have an empty registry).
C17_RegistryOfType ==
    pc \in {"ready", "failed"}
    => /\ filters = get_filters(cls)
       /\ filters = IF cls = "BookDocumentFilterSet" THEN BookRegistry ELSE <<>>
       /\ \A c \in Classes :
             /\ \A i \in 1..Len(get_filters(c)) : IsBaseFilter(get_filters(c)[i].obj)
             /\ \A j \in 1..Len(klass[c]) :
                   IsBaseFilter(klass[c][j].obj)
                      => \E i \in 1..Len(get_filters(c)) : get_filters(c)[i] = klass[c][j]

C17_Witness ==
    /\ cls = "BookDocumentFilterSet" /\ pc = "ready"
    /\ Len(results) = 2
    /\ Names(filters) =
          <<"title", "author", "publication_date", "price", "price_min", "price_max">>

\* C18: under every interleaving of the steps of two BookDocumentFilterSet
\* instances, each query an instance returns is the one it builds from its own
\* data when run alone, the query of a running loop is the fold of its own data
\* so far, and the class attributes (the primitives, the registry) stay as
\* declared.
C18_NoSharedState ==
    /\ klass = [c \in Classes |-> ClassDict(c)]
    /\ \A i \in Instances :
          LET alone == DocumentFilterSet_search("BookDocumentFilterSet", BookRegistry,
                                                inst[i].data)
          IN  /\ \A k \in 1..Len(inst[i].out) : inst[i].out[k] = alone
              /\ inst[i].pc = "loop"
                    => inst[i].acc = BookDocumentFilterSet_filter(
                            SubSeq(BookRegistry, 1, inst[i].pos - 1), inst[i].data,
                            Document_search("books"))
              /\ inst[i].pc # "init" => inst[i].names = Names(BookRegistry)

C18_Witness ==
    /\ inst["a"].pc = "loop" /\ inst["a"].pos = 5
    /\ inst["a"].data = [title |-> Str("Python"), price |-> Num(2999)]
    /\ Len(inst["a"].acc.clauses) = 2
    /\ inst["b"].pc = "loop" /\ inst["b"].pos = 2
    /\ inst["b"].data = [price_min |-> Num(3500)]

====
